---- MODULE Spec2Model ----
(***************************************************************************)
(* UART -> USB-HID relay (PicoProject/main.py) and the Flask host bridge   *)
(* that feeds it (Piproject/flask_app/app.py).                             *)
(*                                                                         *)
(* Text is a sequence of Unicode code points, the serial link carries      *)
(* bytes (0..255); str.encode() / bytes.decode('utf-8') convert between    *)
(* the two.  A HID call is logged as a record                              *)
(*   [op, keys, x, y, held]                                                *)
(* op   : "press" | "release_all" | "move" | "click"                       *)
(* keys : the keycodes passed to press / the button passed to click        *)
(* x, y : the relative move                                                *)
(* held : the keys (keyboard ops) or buttons (mouse ops) in the report     *)
(*        the device has sent when the call returns                        *)
(***************************************************************************)
EXTENDS Integers, Sequences, FiniteSets, TLC

VARIABLES
    uart,     \* bytes in the relay's UART receive buffer, oldest first
    pc,       \* relay position: "idle" (polling), "typing" (inside type_text), "crashed"
    raw,      \* bytes returned by the last uart.readline()
    cmd,      \* main.py `cmd`: the last line decoded and stripped
    rest,     \* characters of str_text the for loop of type_text has not reached yet
    hid,      \* USB HID devices: keys held, buttons held, cursor, calls of the current dispatch
    sent,     \* number of serial writes that reached the UART
    nread,    \* number of uart.readline() calls made by the relay
    nmoves,   \* number of dispatched lines per directional token
    nreq,     \* number of HTTP requests the host bridge has handled
    req,      \* last HTTP request handled by the host bridge
    writes,   \* arguments of ser.write made while handling req
    resp,     \* HTTP status the framework answered req with
    uart_tx,  \* bytes the relay has written to its UART (the line back to the host)
    ser_reads,\* number of reads the host bridge has made from the serial port
    wrote,    \* the lines the host bridge has put on the wire, oldest first
    got,      \* the lines uart.readline() has returned, oldest first
    wire,     \* bytes of a line in transit that have not reached the UART yet
    th,       \* request threads of the host bridge inside ser.write
    old,      \* the relay running the legacy build Backup/main2.py
    v2,       \* the legacy host bridge Backup/app_V2.py: its last /control request
    stepper,  \* an STSPIN stepper driver object (adafruit_stspin.py)
    midi      \* a MIDIPlayer and the MIDIParser it plays (adafruit_midi_parser.py)

vars == <<uart, pc, raw, cmd, rest, hid, sent, nread, nmoves, nreq, req, writes, resp,
          uart_tx, ser_reads, wrote, got, wire, th, old, v2, stepper, midi>>

relayVars == <<pc, raw, cmd, rest, hid, nread, nmoves>>
hostVars == <<nreq, req, writes, resp>>
backVars == <<uart_tx, ser_reads>>
histVars == <<wrote, got>>
libVars == <<v2, stepper, midi>>
otherVars == <<wire, th, old, libVars>>

(***************************************************************************)
(* Bounds of the model                                                     *)
(***************************************************************************)
MaxLen == 2      \* longest TEXT payload / JSON value enumerated exhaustively
MaxLines == 2    \* lines an arbitrary sender puts on the UART per behaviour
MaxRequests == 2 \* HTTP requests per behaviour
MaxChunks == 2   \* pieces in which one ser.write hands its bytes to the port
MaxPairs == 1    \* lines given to the current and the legacy relay side by side

(***************************************************************************)
(* Strings                                                                 *)
(***************************************************************************)
s_up == <<117, 112>>
s_down == <<100, 111, 119, 110>>
s_left == <<108, 101, 102, 116>>
s_right == <<114, 105, 103, 104, 116>>
s_left_click == <<108, 101, 102, 116, 95, 99, 108, 105, 99, 107>>
s_right_click == <<114, 105, 103, 104, 116, 95, 99, 108, 105, 99, 107>>
s_CMD == <<67, 77, 68, 58>>                  \* "CMD:"
s_TEXT == <<84, 69, 88, 84, 58>>             \* "TEXT:"
s_SHIFT == <<83, 72, 73, 70, 84>>
s_BACKSPACE == <<66, 65, 67, 75, 83, 80, 65, 67, 69>>
s_ENTER == <<69, 78, 84, 69, 82>>
s_CTRL_ALT_DEL == <<67, 84, 82, 76, 95, 65, 76, 84, 95, 68, 69, 76>>
s_WIN_3 == <<87, 73, 78, 95, 51>>

\* str.startswith
StartsWith(s, p) == Len(s) >= Len(p) /\ SubSeq(s, 1, Len(p)) = p

\* characters str.strip() removes (unichar_isspace: space, \t, \n, \v, \f, \r)
IsSpace(c) == c \in {9, 10, 11, 12, 13, 32}

RECURSIVE LStrip(_)
LStrip(s) == IF s # <<>> /\ IsSpace(Head(s)) THEN LStrip(Tail(s)) ELSE s

RECURSIVE RStrip(_)
RStrip(s) ==
    IF s # <<>> /\ IsSpace(s[Len(s)]) THEN RStrip(SubSeq(s, 1, Len(s) - 1)) ELSE s

Strip_leftOnly(s) == LStrip(s)

\* str.strip()
Strip(s) == RStrip(LStrip(s))

\* index of the first occurrence of character c in s, 0 if there is none
RECURSIVE IndexFrom(_, _, _)
IndexFrom(s, c, i) ==
    IF i > Len(s) THEN 0 ELSE IF s[i] = c THEN i ELSE IndexFrom(s, c, i + 1)

Index(s, c) == IndexFrom(s, c, 1)

\* s.split(":"): the list of fields between the colons
RECURSIVE Split(_)
Split(s) ==
    LET i == Index(s, 58)
    IN  IF i = 0 THEN <<s>>
        ELSE <<SubSeq(s, 1, i - 1)>> \o Split(SubSeq(s, i + 1, Len(s)))

\* s.split(":", 1): at most one split, at the first colon
Split1(s) ==
    LET i == Index(s, 58)
    IN  IF i = 0 THEN <<s>>
        ELSE <<SubSeq(s, 1, i - 1), SubSeq(s, i + 1, Len(s))>>

(***************************************************************************)
(* UTF-8                                                                   *)
(***************************************************************************)
\* str.encode() of one code point
EncodeChar(c) ==
    IF c < 128 THEN <<c>>
    ELSE IF c < 2048 THEN <<192 + (c \div 64), 128 + (c % 64)>>
    ELSE IF c < 65536
         THEN <<224 + (c \div 4096), 128 + ((c \div 64) % 64), 128 + (c % 64)>>
    ELSE <<240 + (c \div 262144), 128 + ((c \div 4096) % 64),
           128 + ((c \div 64) % 64), 128 + (c % 64)>>

RECURSIVE Encode(_)
Encode(s) == IF s = <<>> THEN <<>> ELSE EncodeChar(Head(s)) \o Encode(Tail(s))

IsCont(b) == b \in 128..191

\* number of continuation bytes a lead byte announces, -1 for a byte that cannot lead
Follow(b) ==
    IF b < 128 THEN 0
    ELSE IF b \in 194..223 THEN 1
    ELSE IF b \in 224..239 THEN 2
    ELSE IF b \in 240..244 THEN 3
    ELSE -1

\* bytes.decode('utf-8'): [ok |-> TRUE, text |-> code points], or ok |-> FALSE where
\* the call raises UnicodeError
RECURSIVE Decode(_)
Decode(bs) ==
    IF bs = <<>> THEN [ok |-> TRUE, text |-> <<>>]
    ELSE LET b == Head(bs)
             n == Follow(b)
         IN  IF n = -1 \/ Len(bs) < n + 1 \/ \E k \in 2..(n + 1) : ~IsCont(bs[k])
             THEN [ok |-> FALSE, text |-> <<>>]
             ELSE LET c == IF n = 0 THEN b
                           ELSE IF n = 1 THEN (b - 192) * 64 + (bs[2] - 128)
                           ELSE IF n = 2
                                THEN (b - 224) * 4096 + (bs[2] - 128) * 64 + (bs[3] - 128)
                           ELSE (b - 240) * 262144 + (bs[2] - 128) * 4096
                                + (bs[3] - 128) * 64 + (bs[4] - 128)
                      r == Decode(SubSeq(bs, n + 2, Len(bs)))
                  IN  IF r.ok THEN [ok |-> TRUE, text |-> <<c>> \o r.text] ELSE r

\* uart.readline(): the bytes up to and including the first newline; all buffered
\* bytes when the read times out before a newline arrives
ReadLine_all(buf) == buf

ReadLine(buf) ==
    LET i == Index(buf, 10)
    IN  IF i = 0 THEN buf ELSE SubSeq(buf, 1, i)

(***************************************************************************)
(* HID devices (adafruit_hid Keyboard and Mouse as main.py calls them)     *)
(***************************************************************************)
move_step == 10

Call(op, keys, x, y, held) ==
    [op |-> op, keys |-> keys, x |-> x, y |-> y, held |-> held]

\* keyboard.press(*keycodes): the keys join the report, the report is sent
KeyboardPress(h, keys) ==
    [h EXCEPT !.keys = h.keys \cup keys,
              !.log = Append(h.log, Call("press", keys, 0, 0, h.keys \cup keys))]

\* keyboard.release_all(): an empty report is sent
KeyboardReleaseAll(h) ==
    [h EXCEPT !.keys = {},
              !.log = Append(h.log, Call("release_all", {}, 0, 0, {}))]

\* keyboard.send(*keycodes): press, then release_all
KeyboardSend(h, keys) == KeyboardReleaseAll(KeyboardPress(h, keys))

\* mouse.move(x, y): one relative report, the buttons held stay held
MouseMove(h, x, y) ==
    [h EXCEPT !.x = h.x + x, !.y = h.y + y,
              !.log = Append(h.log, Call("move", {}, x, y, h.buttons))]

\* mouse.click(button): press and release of the button
MouseClick(h, button) ==
    [h EXCEPT !.buttons = h.buttons \ {button},
              !.log = Append(h.log, Call("click", {button}, 0, 0, h.buttons \ {button}))]

(***************************************************************************)
(* type_text                                                               *)
(***************************************************************************)
\* str.isalpha / isupper / isdigit / upper on one character (ASCII classes)
IsAlpha(c) == c \in 65..90 \/ c \in 97..122
IsUpper(c) == c \in 65..90
IsDigit(c) == c \in 48..57
Upper(c) == IF c \in 97..122 THEN c - 32 ELSE c

LetterNames ==
    <<"A", "B", "C", "D", "E", "F", "G", "H", "I", "J", "K", "L", "M",
      "N", "O", "P", "Q", "R", "S", "T", "U", "V", "W", "X", "Y", "Z">>

\* getattr(Keycode, char.upper())
LetterKey(c) == LetterNames[Upper(c) - 64]

\* num_map[char]
num_map(c) ==
    <<"ZERO", "ONE", "TWO", "THREE", "FOUR", "FIVE", "SIX", "SEVEN", "EIGHT", "NINE">>[c - 47]

TypeChar_keepsShift(h, c) ==
    IF IsAlpha(c)
    THEN IF IsUpper(c)
         THEN KeyboardPress(h, {"SHIFT", LetterKey(c)})
         ELSE KeyboardSend(h, {LetterKey(c)})
    ELSE IF IsDigit(c) THEN KeyboardSend(h, {num_map(c)})
    ELSE IF c = 32 THEN KeyboardSend(h, {"SPACE"})
    ELSE IF c = 10 THEN KeyboardSend(h, {"ENTER"})
    ELSE IF c = 46 THEN KeyboardSend(h, {"PERIOD"})
    ELSE IF c = 44 THEN KeyboardSend(h, {"COMMA"})
    ELSE IF c = 33 THEN KeyboardReleaseAll(KeyboardPress(h, {"SHIFT", "ONE"}))
    ELSE IF c = 63 THEN KeyboardReleaseAll(KeyboardPress(h, {"SHIFT", "FORWARD_SLASH"}))
    ELSE IF c = 45 THEN KeyboardSend(h, {"MINUS"})
    ELSE IF c = 95 THEN KeyboardReleaseAll(KeyboardPress(h, {"SHIFT", "MINUS"}))
    ELSE IF c = 64 THEN KeyboardReleaseAll(KeyboardPress(h, {"SHIFT", "TWO"}))
    ELSE IF c = 35 THEN KeyboardReleaseAll(KeyboardPress(h, {"SHIFT", "THREE"}))
    ELSE IF c = 36 THEN KeyboardReleaseAll(KeyboardPress(h, {"SHIFT", "FOUR"}))
    ELSE h

\* one iteration of `for char in str_text`
TypeChar(h, c) ==
    IF IsAlpha(c)
    THEN IF IsUpper(c)
         THEN KeyboardReleaseAll(KeyboardPress(h, {"SHIFT", LetterKey(c)}))
         ELSE KeyboardSend(h, {LetterKey(c)})
    ELSE IF IsDigit(c) THEN KeyboardSend(h, {num_map(c)})
    ELSE IF c = 32 THEN KeyboardSend(h, {"SPACE"})
    ELSE IF c = 10 THEN KeyboardSend(h, {"ENTER"})
    ELSE IF c = 46 THEN KeyboardSend(h, {"PERIOD"})
    ELSE IF c = 44 THEN KeyboardSend(h, {"COMMA"})
    ELSE IF c = 33 THEN KeyboardReleaseAll(KeyboardPress(h, {"SHIFT", "ONE"}))
    ELSE IF c = 63 THEN KeyboardReleaseAll(KeyboardPress(h, {"SHIFT", "FORWARD_SLASH"}))
    ELSE IF c = 45 THEN KeyboardSend(h, {"MINUS"})
    ELSE IF c = 95 THEN KeyboardReleaseAll(KeyboardPress(h, {"SHIFT", "MINUS"}))
    ELSE IF c = 64 THEN KeyboardReleaseAll(KeyboardPress(h, {"SHIFT", "TWO"}))
    ELSE IF c = 35 THEN KeyboardReleaseAll(KeyboardPress(h, {"SHIFT", "THREE"}))
    ELSE IF c = 36 THEN KeyboardReleaseAll(KeyboardPress(h, {"SHIFT", "FOUR"}))
    ELSE h

(***************************************************************************)
(* The relay's main loop                                                   *)
(***************************************************************************)
\* the six branches on a literal token; called with no other line
DispatchMouse_flipped(h, c) ==
    IF c = s_up THEN MouseMove(h, 0, move_step)
    ELSE IF c = s_down THEN MouseMove(h, 0, -move_step)
    ELSE IF c = s_left THEN MouseMove(h, -move_step, 0)
    ELSE IF c = s_right THEN MouseMove(h, move_step, 0)
    ELSE IF c = s_left_click THEN MouseClick(h, "LEFT_BUTTON")
    ELSE MouseClick(h, "RIGHT_BUTTON")

DispatchMouse(h, c) ==
    IF c = s_up THEN MouseMove(h, 0, -move_step)
    ELSE IF c = s_down THEN MouseMove(h, 0, move_step)
    ELSE IF c = s_left THEN MouseMove(h, -move_step, 0)
    ELSE IF c = s_right THEN MouseMove(h, move_step, 0)
    ELSE IF c = s_left_click THEN MouseClick(h, "LEFT_BUTTON")
    ELSE MouseClick(h, "RIGHT_BUTTON")

\* the branch `elif cmd.startswith("CMD:")`
DispatchCmd_leftShift(h, c) ==
    LET key_name == Split(c)[2]
    IN  IF key_name = s_SHIFT THEN KeyboardSend(h, {"SHIFT"})
        ELSE IF key_name = s_BACKSPACE THEN KeyboardSend(h, {"BACKSPACE"})
        ELSE IF key_name = s_ENTER THEN KeyboardSend(h, {"ENTER"})
        ELSE IF key_name = s_CTRL_ALT_DEL
             THEN KeyboardReleaseAll(KeyboardPress(h, {"CONTROL", "ALT", "DELETE"}))
        ELSE IF key_name = s_WIN_3
             THEN KeyboardReleaseAll(KeyboardPress(h, {"WINDOWS", "THREE"}))
        ELSE h

DispatchCmd_keepsWin3(h, c) ==
    LET key_name == Split(c)[2]
    IN  IF key_name = s_SHIFT THEN KeyboardSend(h, {"RIGHT_SHIFT"})
        ELSE IF key_name = s_BACKSPACE THEN KeyboardSend(h, {"BACKSPACE"})
        ELSE IF key_name = s_ENTER THEN KeyboardSend(h, {"ENTER"})
        ELSE IF key_name = s_CTRL_ALT_DEL
             THEN KeyboardReleaseAll(KeyboardPress(h, {"CONTROL", "ALT", "DELETE"}))
        ELSE IF key_name = s_WIN_3
             THEN KeyboardPress(h, {"WINDOWS", "THREE"})
        ELSE h

DispatchCmd_holdsUnknown(h, c) ==
    LET key_name == Split(c)[2]
    IN  IF key_name = s_SHIFT THEN KeyboardSend(h, {"RIGHT_SHIFT"})
        ELSE IF key_name = s_BACKSPACE THEN KeyboardSend(h, {"BACKSPACE"})
        ELSE IF key_name = s_ENTER THEN KeyboardSend(h, {"ENTER"})
        ELSE IF key_name = s_CTRL_ALT_DEL
             THEN KeyboardReleaseAll(KeyboardPress(h, {"CONTROL", "ALT", "DELETE"}))
        ELSE IF key_name = s_WIN_3
             THEN KeyboardReleaseAll(KeyboardPress(h, {"WINDOWS", "THREE"}))
        ELSE KeyboardPress(h, {"SHIFT"})

DispatchCmd(h, c) ==
    LET key_name == Split(c)[2]
    IN  IF key_name = s_SHIFT THEN KeyboardSend(h, {"RIGHT_SHIFT"})
        ELSE IF key_name = s_BACKSPACE THEN KeyboardSend(h, {"BACKSPACE"})
        ELSE IF key_name = s_ENTER THEN KeyboardSend(h, {"ENTER"})
        ELSE IF key_name = s_CTRL_ALT_DEL
             THEN KeyboardReleaseAll(KeyboardPress(h, {"CONTROL", "ALT", "DELETE"}))
        ELSE IF key_name = s_WIN_3
             THEN KeyboardReleaseAll(KeyboardPress(h, {"WINDOWS", "THREE"}))
        ELSE h

Tokens == {s_up, s_down, s_left, s_right, s_left_click, s_right_click}

Dispatch_prefixTokens(h, c) ==
    IF \E t \in Tokens : StartsWith(c, t)
    THEN [h |-> DispatchMouse(h, CHOOSE t \in Tokens : StartsWith(c, t)),
          typing |-> FALSE, text |-> <<>>]
    ELSE IF StartsWith(c, s_CMD)
         THEN [h |-> DispatchCmd(h, c), typing |-> FALSE, text |-> <<>>]
    ELSE IF StartsWith(c, s_TEXT)
         THEN [h |-> h, typing |-> TRUE, text |-> Split1(c)[2]]
    ELSE [h |-> h, typing |-> FALSE, text |-> <<>>]

\* the if/elif chain up to the call of type_text: the devices after it, and the
\* text handed to type_text (typing is FALSE when type_text is not called)
Dispatch(h, c) ==
    IF c \in Tokens
    THEN [h |-> DispatchMouse(h, c), typing |-> FALSE, text |-> <<>>]
    ELSE IF StartsWith(c, s_CMD)
         THEN [h |-> DispatchCmd(h, c), typing |-> FALSE, text |-> <<>>]
    ELSE IF StartsWith(c, s_TEXT)
         THEN [h |-> h, typing |-> TRUE, text |-> Split1(c)[2]]
    ELSE [h |-> h, typing |-> FALSE, text |-> <<>>]

Directions == {s_up, s_down, s_left, s_right}

\* the bytes the main loop writes to the UART while it handles the line c: no
\* branch calls uart.write (print goes to the USB console, not to the UART)
UartWrites_echo(c) == Encode(c) \o <<10>>

UartWrites(c) == <<>>

\* one pass of `while True` with data waiting: readline, decode, strip, dispatch.
\* A decode error is not caught anywhere: the script ends.
PollLine ==
    /\ pc = "idle"
    /\ Len(uart) > 0
    /\ LET line == ReadLine(uart)
           dec == Decode(line)
           h0 == [hid EXCEPT !.log = <<>>]
       IN  /\ uart' = SubSeq(uart, Len(line) + 1, Len(uart))
           /\ raw' = line
           /\ nread' = nread + 1
           /\ IF ~dec.ok
              THEN /\ pc' = "crashed"
                   /\ hid' = h0
                   /\ UNCHANGED <<cmd, rest, nmoves, uart_tx>>
              ELSE LET c == Strip(dec.text)
                       d == Dispatch(h0, c)
                   IN  /\ cmd' = c
                       /\ hid' = d.h
                       /\ rest' = d.text
                       /\ pc' = IF d.typing /\ d.text # <<>> THEN "typing" ELSE "idle"
                       /\ nmoves' = IF c \in Directions
                                    THEN [nmoves EXCEPT ![c] = @ + 1]
                                    ELSE nmoves
                       /\ uart_tx' = uart_tx \o UartWrites(c)
    /\ UNCHANGED <<sent, nreq, req, writes, resp, ser_reads, wrote, wire, th, old, libVars>>

\* the pass of the loop, in the specifications that keep no record of the lines
Poll == PollLine /\ UNCHANGED got

\* one iteration of the for loop of type_text (a keystroke, then time.sleep(0.05));
\* after the last character type_text returns and the loop polls again
TypeStep_cancels ==
    /\ pc = "typing"
    /\ IF uart # <<>>
       THEN hid' = hid /\ rest' = <<>> /\ pc' = "idle"
       ELSE /\ hid' = TypeChar(hid, Head(rest))
            /\ rest' = Tail(rest)
            /\ pc' = IF Tail(rest) = <<>> THEN "idle" ELSE "typing"
    /\ UNCHANGED <<uart, raw, cmd, sent, nread, nmoves, nreq, req, writes, resp>>
    /\ UNCHANGED <<backVars, histVars, otherVars>>

TypeStep ==
    /\ pc = "typing"
    /\ hid' = TypeChar(hid, Head(rest))
    /\ rest' = Tail(rest)
    /\ pc' = IF Tail(rest) = <<>> THEN "idle" ELSE "typing"
    /\ UNCHANGED <<uart, raw, cmd, sent, nread, nmoves, nreq, req, writes, resp>>
    /\ UNCHANGED <<backVars, histVars, otherVars>>

(***************************************************************************)
(* The legacy relay (PicoProject/Backup/main2.py)                          *)
(***************************************************************************)
s_click == <<99, 108, 105, 99, 107>>         \* "click"
s_shift == <<115, 104, 105, 102, 116>>       \* "shift"
s_type == <<116, 121, 112, 101, 58>>         \* "type:"

\* index at which the first occurrence of sep starts in s, 0 if there is none
RECURSIVE FindFrom(_, _, _)
FindFrom(s, sep, i) ==
    IF i + Len(sep) - 1 > Len(s) THEN 0
    ELSE IF SubSeq(s, i, i + Len(sep) - 1) = sep THEN i
    ELSE FindFrom(s, sep, i + 1)

\* s.split(sep, 1): at most one split, at the first occurrence of sep
SplitAt1(s, sep) ==
    LET i == FindFrom(s, sep, 1)
    IN  IF i = 0 THEN <<s>>
        ELSE <<SubSeq(s, 1, i - 1), SubSeq(s, i + Len(sep), Len(s))>>

\* one iteration of `for char in text` of the legacy type_text
TypeChar2(h, c) ==
    IF IsAlpha(c)
    THEN IF IsUpper(c)
         THEN KeyboardReleaseAll(KeyboardPress(h, {"SHIFT", LetterKey(c)}))
         ELSE KeyboardSend(h, {LetterKey(c)})
    ELSE IF IsDigit(c) THEN KeyboardSend(h, {num_map(c)})
    ELSE IF c = 32 THEN KeyboardSend(h, {"SPACE"})
    ELSE IF c = 10 THEN KeyboardSend(h, {"ENTER"})
    ELSE IF c = 46 THEN KeyboardSend(h, {"PERIOD"})
    ELSE IF c = 44 THEN KeyboardSend(h, {"COMMA"})
    ELSE IF c = 33 THEN KeyboardReleaseAll(KeyboardPress(h, {"SHIFT", "ONE"}))
    ELSE IF c = 63 THEN KeyboardReleaseAll(KeyboardPress(h, {"SHIFT", "FORWARD_SLASH"}))
    ELSE IF c = 45 THEN KeyboardSend(h, {"MINUS"})
    ELSE IF c = 95 THEN KeyboardReleaseAll(KeyboardPress(h, {"SHIFT", "MINUS"}))
    ELSE IF c = 64 THEN KeyboardReleaseAll(KeyboardPress(h, {"SHIFT", "TWO"}))
    ELSE IF c = 35 THEN KeyboardReleaseAll(KeyboardPress(h, {"SHIFT", "THREE"}))
    ELSE IF c = 36 THEN KeyboardReleaseAll(KeyboardPress(h, {"SHIFT", "FOUR"}))
    ELSE h

\* the legacy type_text(text), from its first character to its last
RECURSIVE type_text2(_, _)
type_text2(h, text) ==
    IF text = <<>> THEN h ELSE type_text2(TypeChar2(h, Head(text)), Tail(text))

Dispatch2_acceptsTEXT(h, c) ==
    IF c = s_up THEN MouseMove(h, 0, -10)
    ELSE IF c = s_down THEN MouseMove(h, 0, 10)
    ELSE IF c = s_left THEN MouseMove(h, -10, 0)
    ELSE IF c = s_right THEN MouseMove(h, 10, 0)
    ELSE IF c = s_click THEN MouseClick(h, "LEFT_BUTTON")
    ELSE IF c = s_shift THEN KeyboardSend(h, {"SHIFT"})
    ELSE IF StartsWith(c, s_type) THEN type_text2(h, SplitAt1(c, s_type)[2])
    ELSE IF StartsWith(c, s_TEXT) THEN type_text2(h, SplitAt1(c, s_TEXT)[2])
    ELSE h

Dispatch2_splitsAtColon(h, c) ==
    IF c = s_up THEN MouseMove(h, 0, -10)
    ELSE IF c = s_down THEN MouseMove(h, 0, 10)
    ELSE IF c = s_left THEN MouseMove(h, -10, 0)
    ELSE IF c = s_right THEN MouseMove(h, 10, 0)
    ELSE IF c = s_click THEN MouseClick(h, "LEFT_BUTTON")
    ELSE IF c = s_shift THEN KeyboardSend(h, {"SHIFT"})
    ELSE IF StartsWith(c, s_type) THEN type_text2(h, Split(c)[2])
    ELSE h

\* the if/elif chain of the legacy main loop, type_text included
Dispatch2(h, c) ==
    IF c = s_up THEN MouseMove(h, 0, -10)
    ELSE IF c = s_down THEN MouseMove(h, 0, 10)
    ELSE IF c = s_left THEN MouseMove(h, -10, 0)
    ELSE IF c = s_right THEN MouseMove(h, 10, 0)
    ELSE IF c = s_click THEN MouseClick(h, "LEFT_BUTTON")
    ELSE IF c = s_shift THEN KeyboardSend(h, {"SHIFT"})
    ELSE IF StartsWith(c, s_type) THEN type_text2(h, SplitAt1(c, s_type)[2])
    ELSE h

\* the legacy relay after construction: its own UART buffer and HID devices
OldInit ==
    [uart |-> <<>>, pc |-> "idle", raw |-> <<>>, cmd |-> <<>>, nread |-> 0,
     hid |-> [keys |-> {}, buttons |-> {}, x |-> 0, y |-> 0, log |-> <<>>]]

\* One pass of the legacy `while True` with data waiting: readline, decode,
\* strip and the whole dispatch.  The legacy relay and the current one are two
\* builds for the same board: they share nothing, and the legacy one is stepped
\* once the current one is done with its line.
Poll2 ==
    /\ old.pc = "idle"
    /\ Len(old.uart) > 0
    /\ pc # "typing" /\ uart = <<>>
    /\ LET line == ReadLine(old.uart)
           dec == Decode(line)
           h0 == [old.hid EXCEPT !.log = <<>>]
           o1 == [old EXCEPT !.uart = SubSeq(old.uart, Len(line) + 1, Len(old.uart)),
                             !.raw = line, !.nread = @ + 1, !.hid = h0]
       IN  old' = IF ~dec.ok THEN [o1 EXCEPT !.pc = "crashed"]
                  ELSE [o1 EXCEPT !.cmd = Strip(dec.text),
                                  !.hid = Dispatch2(h0, Strip(dec.text))]
    /\ UNCHANGED <<uart, sent, relayVars, hostVars, backVars, histVars, wire, th, libVars>>

(***************************************************************************)
(* The legacy host bridge (Backup/app_V2.py)                               *)
(***************************************************************************)
\* the actions /control lets through
ControlActions == {s_up, s_down, s_left, s_right, s_click}

control_anyAction(data) ==
    IF "action" \in DOMAIN data
    THEN [writes |-> <<Encode(data["action"] \o <<10>>)>>, status |-> "ok"]
    ELSE [writes |-> <<>>, status |-> "error"]

\* control(): data.get("action") is None when the field is missing, and None is
\* not in the list; the write and the "ok" answer are inside the if, the
\* "error" answer after it
control(data) ==
    IF "action" \in DOMAIN data /\ data["action"] \in ControlActions
    THEN [writes |-> <<Encode(data["action"] \o <<10>>)>>, status |-> "ok"]
    ELSE [writes |-> <<>>, status |-> "error"]

\* no /control request handled yet
V2Init == [nreq |-> 0, data |-> <<>>, writes |-> <<>>, status |-> "", sent |-> 0]

(***************************************************************************)
(* The host bridge (flask_app/app.py)                                      *)
(***************************************************************************)
\* a newline inside the message written as the two characters \ and n
RECURSIVE Escaped(_)
Escaped(s) ==
    IF s = <<>> THEN <<>>
    ELSE (IF Head(s) = 10 THEN <<92, 110>> ELSE <<Head(s)>>) \o Escaped(Tail(s))

send_to_pico_escapes(message) == <<Encode(Escaped(message) \o <<10>>)>>

send_to_pico_noNewline(message) == <<Encode(message)>>

\* send_to_pico(message): the one call ser.write((message + "\n").encode())
send_to_pico(message) == <<Encode(message \o <<10>>)>>

\* mouse_control: the messages handed to send_to_pico for a JSON body
mouse_control_default(data) ==
    send_to_pico(IF "hid_action" \in DOMAIN data THEN data["hid_action"] ELSE <<>>)

mouse_control(data) ==
    IF "hid_action" \in DOMAIN data THEN send_to_pico(data["hid_action"]) ELSE <<>>

send_key_textFirst(data) ==
    IF "hid_text" \in DOMAIN data THEN send_to_pico(s_TEXT \o data["hid_text"])
    ELSE IF "hid_key" \in DOMAIN data THEN send_to_pico(s_CMD \o data["hid_key"])
    ELSE <<>>

\* send_key: hid_key is looked at first, hid_text only when hid_key is absent
send_key(data) ==
    IF "hid_key" \in DOMAIN data THEN send_to_pico(s_CMD \o data["hid_key"])
    ELSE IF "hid_text" \in DOMAIN data THEN send_to_pico(s_TEXT \o data["hid_text"])
    ELSE <<>>

\* Both view functions end without a return statement, so they hand None to the
\* framework, which answers a view that raised or returned None with status 500
\* and any other return value with 200.
ViewResult(raised) == IF raised THEN "raise" ELSE "None"

Status(result) == IF result \in {"raise", "None"} THEN 500 ELSE 200

\* One HTTP request: the handler runs to its end.  ser.write either puts all the
\* bytes on the wire (ok) or raises (the port is gone), and the exception leaves
\* the handler uncaught.
SerReads_ack(path) == 1

\* the reads from `ser` a view function makes: neither view nor send_to_pico
\* calls ser.read / ser.readline
SerReads(path) == 0

Handle_sendsAnyway(path, data, ok) ==
    LET ws == IF path = "/api/mouse" THEN mouse_control(data) ELSE send_key(data)
        raised == ws # <<>> /\ ~ok
    IN  /\ nreq' = nreq + 1
        /\ req' = [path |-> path, data |-> data]
        /\ writes' = [i \in 1..Len(ws) |-> [bytes |-> ws[i], ok |-> ok]]
        /\ resp' = Status(ViewResult(raised))
        /\ uart' = IF ws # <<>> THEN uart \o ws[1] ELSE uart
        /\ sent' = IF ws # <<>> THEN sent + 1 ELSE sent
        /\ ser_reads' = ser_reads + SerReads(path)
        /\ UNCHANGED <<relayVars, uart_tx, got, otherVars>>

Handle(path, data, ok) ==
    LET ws == IF path = "/api/mouse" THEN mouse_control(data) ELSE send_key(data)
        raised == ws # <<>> /\ ~ok
    IN  /\ nreq' = nreq + 1
        /\ req' = [path |-> path, data |-> data]
        /\ writes' = [i \in 1..Len(ws) |-> [bytes |-> ws[i], ok |-> ok]]
        /\ resp' = Status(ViewResult(raised))
        /\ uart' = IF ok /\ ws # <<>> THEN uart \o ws[1] ELSE uart
        /\ sent' = IF ok /\ ws # <<>> THEN sent + 1 ELSE sent
        /\ ser_reads' = ser_reads + SerReads(path)
        /\ UNCHANGED <<relayVars, uart_tx, got, otherVars>>

(***************************************************************************)
(* The stepper driver (stubs/.../adafruit_stspin.py)                       *)
(***************************************************************************)
MaxSteps == 3    \* largest number of steps asked of one step() call, either way
MaxCalls == 2    \* step() calls per behaviour

\* the steps_per_revolution a driver is constructed with
StepsPerRevolution == {1, 3, 4}

\* no driver constructed yet
NoMotor ==
    [built |-> FALSE, steps_per_revolution |-> 0, step_number |-> 0, dir |-> TRUE,
     calls |-> <<>>, trail |-> <<>>]

\* __init__: the position starts at 0, the direction pin high
STSPIN(steps_per_revolution) ==
    [built |-> TRUE, steps_per_revolution |-> steps_per_revolution, step_number |-> 0,
     dir |-> TRUE, calls |-> <<>>, trail |-> <<0>>]

\* the position property
position(m) == m.step_number

Abs(n) == IF n < 0 THEN -n ELSE n

Advance_lateWrap(m, steps) ==
    IF steps > 0
    THEN IF m.step_number + 1 > m.steps_per_revolution
         THEN [m EXCEPT !.step_number = 0]
         ELSE [m EXCEPT !.step_number = @ + 1]
    ELSE IF m.step_number = 0
         THEN [m EXCEPT !.step_number = m.steps_per_revolution - 1]
         ELSE [m EXCEPT !.step_number = @ - 1]

\* the position update of one pass of the for loop of step()
Advance(m, steps) ==
    IF steps > 0
    THEN IF m.step_number + 1 >= m.steps_per_revolution
         THEN [m EXCEPT !.step_number = 0]
         ELSE [m EXCEPT !.step_number = @ + 1]
    ELSE IF m.step_number = 0
         THEN [m EXCEPT !.step_number = m.steps_per_revolution - 1]
         ELSE [m EXCEPT !.step_number = @ - 1]

RECURSIVE StepLoop(_, _, _)
StepLoop(m, steps_left, steps) ==
    IF steps_left = 0 THEN m ELSE StepLoop(Advance(m, steps), steps_left - 1, steps)

\* step(steps): the direction pin, then abs(steps) pulses
step(m, steps) == StepLoop([m EXCEPT !.dir = steps > 0], Abs(steps), steps)

(***************************************************************************)
(* The MIDI player (stubs/.../adafruit_midi_parser.py)                     *)
(***************************************************************************)
MaxEvents == 3   \* events of the parsed file

\* the events of the parsed file, by absolute time: the first alone, the
\* others in pairs at the same tick
MidiEvents == [i \in 1..MaxEvents |-> [absolute |-> i \div 2]]

\* MIDIPlayer(parser) over a parser that has parsed the file.  index is the
\* parser's _current_event_index; handled are the indices of the events the last
\* play() passed to the on_* handlers; ops are the last calls made.
MIDIPlayer ==
    [events |-> MidiEvents, index |-> 0, playing |-> FALSE, finished |-> FALSE,
     loop_playback |-> FALSE, handled |-> <<>>, ops |-> <<>>]

\* MIDIParser.current_event is not None
more_events(p) == p.index < Len(p.events)

\* MIDIParser.reset()
reset(p) == [p EXCEPT !.index = 0]

stop(p) == [p EXCEPT !.playing = FALSE]

pause(p) == [p EXCEPT !.playing = FALSE]

resume_restarts(p) ==
    IF ~p.playing /\ ~p.finished THEN [p EXCEPT !.playing = TRUE, !.index = 0] ELSE p

resume(p) ==
    IF ~p.playing /\ ~p.finished THEN [p EXCEPT !.playing = TRUE] ELSE p

\* the while loop of play(): every event at the tick t, in file order
RECURSIVE Consume(_, _)
Consume(p, t) ==
    IF more_events(p) /\ p.events[p.index + 1].absolute = t
    THEN Consume([p EXCEPT !.index = @ + 1, !.handled = Append(@, p.index)], t)
    ELSE p

\* play(loop).  `due` says whether the time since the last event has reached
\* the delay to the next one; a call that starts playback has just set the
\* delay to 0.05 s and the last event time to now, so it is not due.
play(p, loop, due) ==
    LET p1 == [p EXCEPT !.loop_playback = IF loop = "None" THEN @ ELSE loop = "True",
                        !.handled = <<>>]
        p2 == IF ~p1.playing
              THEN [reset(p1) EXCEPT !.finished = FALSE, !.playing = TRUE]
              ELSE p1
    IN  IF ~(due /\ p1.playing) THEN p2
        ELSE IF more_events(p2) THEN Consume(p2, p2.events[p2.index + 1].absolute)
        ELSE IF p2.loop_playback
             THEN [reset(p2) EXCEPT !.playing = TRUE, !.finished = FALSE]
             ELSE [p2 EXCEPT !.playing = FALSE, !.finished = TRUE]

(***************************************************************************)
(* Inputs                                                                  *)
(***************************************************************************)
\* a line of text as the bytes that carry it
Line(text) == Encode(text) \o <<10>>

BoundedSeq(S, n) == UNION {[1..k -> S] : k \in 0..n}

CmdNames == {s_SHIFT, s_BACKSPACE, s_ENTER, s_CTRL_ALT_DEL, s_WIN_3}

\* 'a', 'B', ' ': a lower-case and an upper-case letter, and a supported mark
\* that strip() also removes
TextAlphabet == {97, 66, 32}

\* every text over TextAlphabet up to MaxLen; every other supported character at
\* least once; the unsupported '*', ':' (the split character), tab and the
\* two-byte (c) sign; and a few longer texts: "Hi!", "a:b", "up", "a*B", " a  ",
\* "*a", "B*"
Payloads ==
    BoundedSeq(TextAlphabet, MaxLen)
        \cup {<<c>> : c \in {122, 90, 48, 49, 57, 46, 44, 33, 63, 45, 95, 64, 35, 36,
                             42, 58, 9, 169}}
        \cup {<<72, 105, 33>>, <<97, 58, 98>>, s_up, <<97, 42, 66>>, <<32, 97, 32, 32>>,
              <<42, 97>>, <<66, 42>>}

\* names after "CMD:": the supported ones, and near misses
CmdTails ==
    CmdNames
        \cup {<<>>, <<101, 110, 116, 101, 114>>, <<69, 78, 84, 69, 82, 88>>,
              <<69, 78, 84, 69, 82, 58, 120>>, <<58, 69, 78, 84, 69, 82>>,
              <<120, 58, 69, 78, 84, 69, 82>>, <<83, 72, 73, 70, 84, 58, 69, 78, 84, 69, 82>>,
              <<69, 78, 84, 69, 82, 32>>, <<32, 69, 78, 84, 69, 82>>}

\* lines with no recognized shape, or recognized only once stripped
OddLines ==
    {<<>>, <<32>>, <<9, 32>>, <<102, 111, 111, 98, 97, 114>>, <<85, 80>>, <<85, 112>>,
     <<117, 112, 120>>, <<99, 109, 100, 58, 69, 78, 84, 69, 82>>, <<84, 101, 120, 116, 58, 97>>,
     <<67, 77, 68>>, <<84, 69, 88, 84>>, <<99, 108, 105, 99, 107>>, <<115, 104, 105, 102, 116>>,
     <<116, 121, 112, 101, 58, 97>>,
     <<32>> \o s_up, s_up \o <<32>>, <<32>> \o s_up \o <<32>>, s_down \o <<13>>, <<32>> \o s_left_click \o <<9>>,
     <<32>> \o s_CMD \o s_ENTER, <<32>> \o s_TEXT \o <<97>>}

\* lines as text, without the terminating newline
TextLines ==
    Tokens \cup {s_CMD \o n : n \in CmdTails} \cup {s_TEXT \o p : p \in Payloads}
        \cup OddLines

\* byte sequences that are not UTF-8: a byte that cannot occur, a lone
\* continuation byte, a lead byte without its continuation
BadBytes == {<<255>>, <<128>>, <<195>>}

\* what may arrive on the UART as one line
WireLines ==
    {Encode(t) \o <<10>> : t \in TextLines}
        \cup {Encode(t) \o b \o <<10>> :
                t \in {<<>>, s_up, s_CMD \o s_ENTER, s_TEXT, s_TEXT \o <<97>>}, b \in BadBytes}

\* JSON string values of the three request fields: "up", "left_click", "",
\* "CMD:ENTER", "up\ndown" / "ENTER", "WIN_3", "", "ENTER:x" /
\* "a", "Hi!", " B ", "(c)", "a\nup"
ActionValues == {s_up, s_left_click, <<>>, s_CMD \o s_ENTER, s_up \o <<10>> \o s_down}

KeyValues == {s_ENTER, s_WIN_3, <<>>, <<69, 78, 84, 69, 82, 58, 120>>}

TextValues == {<<97>>, <<72, 105, 33>>, <<32, 66, 32>>, <<169>>, <<97, 10, 117, 112>>}

\* JSON bodies: one field with any of its values, several fields at once, none
Field(f, v) == f :> v

Bodies ==
    {Field("hid_action", v) : v \in ActionValues}
        \cup {Field("hid_key", v) : v \in KeyValues}
        \cup {Field("hid_text", v) : v \in TextValues}
        \cup {Field("hid_key", s_ENTER) @@ Field("hid_text", <<97>>),
              Field("hid_action", s_up) @@ Field("hid_key", s_ENTER),
              Field("other", <<97>>)}

(***************************************************************************)
(* Specifications                                                          *)
(***************************************************************************)
NoRequest == [path |-> "", data |-> <<>>]

Init ==
    /\ uart = <<>>
    /\ pc = "idle"
    /\ raw = <<>>
    /\ cmd = <<>>
    /\ rest = <<>>
    /\ hid = [keys |-> {}, buttons |-> {}, x |-> 0, y |-> 0, log |-> <<>>]
    /\ sent = 0
    /\ nread = 0
    /\ nmoves = [d \in Directions |-> 0]
    /\ nreq = 0
    /\ req = NoRequest
    /\ writes = <<>>
    /\ resp = 0
    /\ uart_tx = <<>>
    /\ ser_reads = 0
    /\ wrote = <<>>
    /\ got = <<>>
    /\ wire = <<>>
    /\ th = <<>>
    /\ old = OldInit
    /\ v2 = V2Init
    /\ stepper = NoMotor
    /\ midi = MIDIPlayer

\* a line arrives on the RX pin, from whatever drives it; the sender waits until
\* the relay has taken the previous line out of the buffer
Receive ==
    /\ sent < MaxLines
    /\ uart = <<>>
    /\ \E line \in WireLines : uart' = uart \o line
    /\ sent' = sent + 1
    /\ UNCHANGED <<relayVars, hostVars, backVars, histVars, otherVars>>

\* POST /api/mouse
MouseControl ==
    /\ nreq < MaxRequests
    /\ \E data \in Bodies, ok \in BOOLEAN : Handle("/api/mouse", data, ok)
    /\ UNCHANGED wrote

\* POST /api/keyboard
SendKey ==
    /\ nreq < MaxRequests
    /\ \E data \in Bodies, ok \in BOOLEAN : Handle("/api/keyboard", data, ok)
    /\ UNCHANGED wrote

\* the relay fed by an arbitrary sender
Next == Receive \/ Poll \/ TypeStep

Spec == Init /\ [][Next]_vars

\* receiver_buffer_size of busio.UART, left at its default by the constructor call
RxBufferSize == 64

\* what a view function hands to ser.write for a request
ViewWrites(path, data) ==
    IF path = "/api/mouse" THEN mouse_control(data) ELSE send_key(data)

\* the lines in a run of bytes, each with its terminator, as readline cuts them
RECURSIVE Lines(_)
Lines(bytes) ==
    IF bytes = <<>> THEN <<>>
    ELSE LET line == ReadLine(bytes)
         IN  <<line>> \o Lines(SubSeq(bytes, Len(line) + 1, Len(bytes)))

\* bodies of the requests made while the relay is busy: "up", "up\ndown",
\* ENTER, "Hi!", "(c)"
QueueBodies ==
    {Field("hid_action", s_up), Field("hid_action", s_up \o <<10>> \o s_down),
     Field("hid_key", s_ENTER), Field("hid_text", <<72, 105, 33>>),
     Field("hid_text", <<169>>)}

\* a request handled at any moment, also while the relay is inside a dispatch,
\* as long as its bytes fit in the receive buffer; the lines that reach the wire
\* are recorded
QRequest(path) ==
    /\ nreq < MaxRequests
    /\ \E data \in QueueBodies, ok \in BOOLEAN :
          LET ws == ViewWrites(path, data)
          IN  /\ \A i \in 1..Len(ws) : Len(uart) + Len(ws[i]) <= RxBufferSize
              /\ Handle(path, data, ok)
              /\ wrote' = IF ok /\ ws # <<>> THEN wrote \o Lines(ws[1]) ELSE wrote

QMouseControl == QRequest("/api/mouse")

QSendKey == QRequest("/api/keyboard")

\* the pass of the loop, the line read being recorded
QPoll == PollLine /\ got' = Append(got, raw')

QueueNext == QMouseControl \/ QSendKey \/ QPoll \/ TypeStep

\* a pass of the loop that finds data waiting, seen through the count of
\* readline calls: the steps of QPoll are the only ones that change nread, and
\* QPoll is enabled exactly when the relay is idle with data waiting
LoopPass == pc = "idle" /\ Len(uart) > 0 /\ nread' = nread + 1

\* `while True` never stops polling, and the for loop of type_text always goes
\* on to its next character
QueueSpec ==
    Init /\ [][QueueNext]_vars /\ WF_nread(LoopPass) /\ WF_vars(TypeStep)

\* lines a sender may put on the RX pin piece by piece: left_click, upx,
\* TEXT:ab, CMD:ENTER
LinkLines ==
    {Line(t) : t \in {s_left_click, s_up \o <<120>>, s_TEXT \o <<97, 98>>,
                       s_CMD \o s_ENTER}}

\* the sender starts a line once the relay has taken the previous one out of the
\* buffer; nothing of the new line has reached the UART yet
Send ==
    /\ sent < MaxLines
    /\ wire = <<>>
    /\ uart = <<>>
    /\ \E line \in LinkLines : wire' = line
    /\ sent' = sent + 1
    /\ UNCHANGED <<uart, relayVars, hostVars, backVars, histVars, th, old, libVars>>

\* the next bytes of the line in transit reach the receive buffer
Arrive ==
    /\ wire # <<>>
    /\ \E k \in 1..Len(wire) :
          /\ uart' = uart \o SubSeq(wire, 1, k)
          /\ wire' = SubSeq(wire, k + 1, Len(wire))
    /\ UNCHANGED <<sent, relayVars, hostVars, backVars, histVars, th, old, libVars>>

\* The relay on a link whose bytes arrive in pieces.  uart.in_waiting is true
\* from the first byte on; readline then waits for the newline for at most the
\* timeout of the UART (the constructor leaves it at its default of one second)
\* and returns what has arrived: Poll taken before Arrive has delivered the
\* newline is the read that timed out.
LinkNext == Send \/ Arrive \/ Poll \/ TypeStep

LinkSpec == Init /\ [][LinkNext]_vars

\* The development server started by app.run() handles every request in a
\* thread of its own, and all threads share the one `ser`.
Threads == {1, 2}

\* bodies of the concurrent requests: "up", "a"
ConcBodies == {Field("hid_action", s_up), Field("hid_text", <<97>>)}

WriteGuard_locked(t) ==
    \A u \in DOMAIN th \ {t} : th[u].left \in {<<>>, th[u].line}

\* what send_to_pico waits for before it calls ser.write: nothing, there is no
\* lock around the port
WriteGuard(t) == TRUE

\* a request thread reaches ser.write with the bytes of its line
BeginWrite(t) ==
    /\ t \notin DOMAIN th
    /\ \E path \in {"/api/mouse", "/api/keyboard"}, data \in ConcBodies :
          LET ws == ViewWrites(path, data)
          IN  /\ ws # <<>>
              /\ th' = (t :> [line |-> ws[1], left |-> ws[1], pieces |-> 0]) @@ th
    /\ UNCHANGED <<uart, sent, relayVars, hostVars, backVars, histVars, wire, old, libVars>>

\* ser.write hands the bytes to the port in one or more pieces (it loops until
\* the port has taken them all; at most MaxChunks pieces here); between two
\* pieces any other thread may run
WriteSome(t) ==
    /\ t \in DOMAIN th
    /\ th[t].left # <<>>
    /\ WriteGuard(t)
    /\ \E k \in 1..Len(th[t].left) :
          /\ th[t].pieces + 1 = MaxChunks => k = Len(th[t].left)
          /\ uart' = uart \o SubSeq(th[t].left, 1, k)
          /\ th' = [th EXCEPT ![t].left = SubSeq(th[t].left, k + 1, Len(th[t].left)),
                              ![t].pieces = @ + 1]
    /\ sent' = IF Len(th[t].left) = Len(th[t].line) THEN sent + 1 ELSE sent
    /\ UNCHANGED <<relayVars, hostVars, backVars, histVars, wire, old, libVars>>

Begin == \E t \in Threads : BeginWrite(t)

Write == \E t \in Threads : WriteSome(t)

ConcNext == Begin \/ Write \/ Poll \/ TypeStep

\* the relay fed by two requests handled at the same time
ConcSpec == Init /\ [][ConcNext]_vars

\* payloads with the separators in them: "type:a", "a:type:b", "TEXT:a",
\* "a:b:c", "::"
ColonPayloads ==
    {s_type \o <<97>>, <<97, 58>> \o s_type \o <<98>>, s_TEXT \o <<97>>,
     <<97, 58, 98, 58, 99>>, <<58, 58>>}

\* What the two relays are given side by side, as <<line for the current relay,
\* line for the legacy relay>>: the same line for both (every line of WireLines,
\* and type:<payload> lines), or the same payload behind each relay's own
\* prefix, TEXT:<p> for the current and type:<p> for the legacy one (also with
\* bytes that do not decode)
BuildPairs ==
    {<<l, l>> : l \in WireLines}
        \cup {<<Line(s_type \o p), Line(s_type \o p)>> : p \in Payloads \cup ColonPayloads}
        \cup {<<Line(s_TEXT \o p), Line(s_type \o p)>> : p \in Payloads \cup ColonPayloads}
        \cup {<<Encode(s_TEXT) \o b \o <<10>>, Encode(s_type) \o b \o <<10>>>> :
                b \in BadBytes}

\* a line arrives at each relay once both are done with the previous one
Receive2 ==
    /\ sent < MaxPairs
    /\ uart = <<>> /\ old.uart = <<>>
    /\ pc # "typing"
    /\ \E pr \in BuildPairs :
          /\ uart' = pr[1]
          /\ old' = [old EXCEPT !.uart = pr[2]]
    /\ sent' = sent + 1
    /\ UNCHANGED <<relayVars, hostVars, backVars, histVars, wire, th, libVars>>

BuildsNext == Receive2 \/ Poll \/ TypeStep \/ Poll2

\* the current and the legacy relay side by side
BuildsSpec == Init /\ [][BuildsNext]_vars

\* the relay fed by the host bridge alone
BridgeNext == MouseControl \/ SendKey \/ Poll \/ TypeStep

BridgeSpec == Init /\ [][BridgeNext]_vars

\* JSON bodies of POST /control: the five actions, names the legacy relay or
\* the current one knows but /control does not, padded and two-line values, and
\* a body without the field
ControlBodies ==
    {Field("action", a) : a \in ControlActions}
        \cup {Field("action", a) : a \in {s_shift, s_type \o <<97>>, s_left_click, <<>>,
                                          <<32>> \o s_up, s_up \o <<10>> \o s_down}}
        \cup {Field("other", s_up)}

\* One POST /control: the view runs to its end.  ser.write puts the bytes on
\* the wire or raises, and then the view returns no JSON at all.
Control ==
    /\ v2.nreq < MaxRequests
    /\ \E data \in ControlBodies, ok \in BOOLEAN :
          LET r == control(data)
              put == ok /\ r.writes # <<>>
          IN  /\ v2' = [nreq |-> v2.nreq + 1,
                        data |-> data,
                        writes |-> [i \in 1..Len(r.writes) |->
                                       [bytes |-> r.writes[i], ok |-> ok]],
                        status |-> IF r.writes # <<>> /\ ~ok THEN "raise" ELSE r.status,
                        sent |-> IF put THEN v2.sent + 1 ELSE v2.sent]
              /\ old' = IF put THEN [old EXCEPT !.uart = @ \o r.writes[1]] ELSE old
    /\ UNCHANGED <<uart, sent, relayVars, hostVars, backVars, histVars, wire, th,
                   stepper, midi>>

\* the legacy bridge feeding the legacy relay
LegacyNext == Control \/ Poll2

LegacySpec == Init /\ [][LegacyNext]_vars

\* an STSPIN is constructed
NewSTSPIN ==
    /\ stepper = NoMotor
    /\ \E spr \in StepsPerRevolution : stepper' = STSPIN(spr)
    /\ UNCHANGED <<uart, sent, relayVars, hostVars, backVars, histVars, wire, th, old,
                   v2, midi>>

\* one call of step(steps), the whole for loop; the calls made and the position
\* after each are recorded
Step ==
    /\ stepper.built
    /\ Len(stepper.calls) < MaxCalls
    /\ \E steps \in -MaxSteps..MaxSteps :
          LET m == step(stepper, steps)
          IN  stepper' = [m EXCEPT !.calls = Append(@, steps),
                                   !.trail = Append(@, m.step_number)]
    /\ UNCHANGED <<uart, sent, relayVars, hostVars, backVars, histVars, wire, th, old,
                   v2, midi>>

StepperNext == NewSTSPIN \/ Step

StepperSpec == Init /\ [][StepperNext]_vars

\* the last calls made on the player, the newest last
Noted(p, op) ==
    [p EXCEPT !.ops = IF Len(@) < 3 THEN Append(@, op) ELSE Append(Tail(@), op)]

PlayerUnchanged == UNCHANGED <<uart, sent, relayVars, hostVars, backVars, histVars,
                               wire, th, old, v2, stepper>>

Play ==
    /\ \E loop \in {"None", "True", "False"}, due \in BOOLEAN :
          midi' = Noted(play(midi, loop, due), "play")
    /\ PlayerUnchanged

Pause == midi' = Noted(pause(midi), "pause") /\ PlayerUnchanged

Resume == midi' = Noted(resume(midi), "resume") /\ PlayerUnchanged

Stop == midi' = Noted(stop(midi), "stop") /\ PlayerUnchanged

Reset == midi' = Noted(reset(midi), "reset") /\ PlayerUnchanged

PlayerNext == Play \/ Pause \/ Resume \/ Stop \/ Reset

PlayerSpec == Init /\ [][PlayerNext]_vars

(***************************************************************************)
(* Properties                                                              *)
(***************************************************************************)
\* the bytes of the last line read, without the terminating newline
RawBody ==
    IF raw # <<>> /\ raw[Len(raw)] = 10 THEN SubSeq(raw, 1, Len(raw) - 1) ELSE raw

\* a keystroke: the keys go down together and everything is released
Keystroke(keys) ==
    IF keys = {} THEN <<>>
    ELSE <<Call("press", keys, 0, 0, keys), Call("release_all", {}, 0, 0, {})>>

\* C1: a line that is exactly one of the six literal tokens makes exactly one
\* mouse call (up: move(0,-10), down: move(0,10), left: move(-10,0), right:
\* move(10,0), left_click: click(LEFT_BUTTON), right_click: click(RIGHT_BUTTON))
\* and no keyboard call; no key and no button stays held.
C1_MouseTokens ==
    /\ raw = Line(s_up) => hid.log = <<Call("move", {}, 0, -10, {})>>
    /\ raw = Line(s_down) => hid.log = <<Call("move", {}, 0, 10, {})>>
    /\ raw = Line(s_left) => hid.log = <<Call("move", {}, -10, 0, {})>>
    /\ raw = Line(s_right) => hid.log = <<Call("move", {}, 10, 0, {})>>
    /\ raw = Line(s_left_click) => hid.log = <<Call("click", {"LEFT_BUTTON"}, 0, 0, {})>>
    /\ raw = Line(s_right_click) => hid.log = <<Call("click", {"RIGHT_BUTTON"}, 0, 0, {})>>
    /\ raw \in {Line(t) : t \in Tokens} => pc = "idle" /\ hid.keys = {} /\ hid.buttons = {}

\* a second line was dispatched and it was right_click
C1_Witness ==
    /\ nread = 2
    /\ raw = Line(s_right_click)
    /\ hid.log = <<Call("click", {"RIGHT_BUTTON"}, 0, 0, {})>>

\* C2: a line CMD:<NAME> with NAME one of the five supported names emits exactly
\* one press followed by release-all and no mouse call: SHIFT presses RIGHT_SHIFT,
\* BACKSPACE BACKSPACE, ENTER ENTER, CTRL_ALT_DEL CONTROL+ALT+DELETE together,
\* WIN_3 WINDOWS+THREE together.
C2_SupportedCmd ==
    /\ raw = Line(s_CMD \o s_SHIFT) => hid.log = Keystroke({"RIGHT_SHIFT"})
    /\ raw = Line(s_CMD \o s_BACKSPACE) => hid.log = Keystroke({"BACKSPACE"})
    /\ raw = Line(s_CMD \o s_ENTER) => hid.log = Keystroke({"ENTER"})
    /\ raw = Line(s_CMD \o s_CTRL_ALT_DEL)
          => hid.log = Keystroke({"CONTROL", "ALT", "DELETE"})
    /\ raw = Line(s_CMD \o s_WIN_3) => hid.log = Keystroke({"WINDOWS", "THREE"})
    /\ raw \in {Line(s_CMD \o n) : n \in CmdNames} => pc = "idle" /\ hid.keys = {}

\* CMD:SHIFT was dispatched after another line
C2_Witness ==
    /\ nread = 2
    /\ raw = Line(s_CMD \o s_SHIFT)
    /\ Len(hid.log) = 2

\* C3: a line CMD:<NAME>, NAME being all the text after "CMD:", emits no HID call
\* unless NAME is exactly one of the five supported names.  The line is taken as
\* the relay classifies it, decoded and without the surrounding whitespace.
C3_UnknownCmdSilent ==
    (/\ pc # "crashed"
     /\ StartsWith(cmd, s_CMD)
     /\ SubSeq(cmd, 5, Len(cmd)) \notin CmdNames)
        => hid.log = <<>>

\* the keys the wording of C4 gives a character: the letter key with SHIFT for
\* upper case, the digit key, the four unshifted and six shifted marks, nothing
\* for any other character
ClaimedKeys(c) ==
    IF c \in 65..90 THEN {"SHIFT", LetterNames[c - 64]}
    ELSE IF c \in 97..122 THEN {LetterNames[c - 96]}
    ELSE IF c \in 48..57
         THEN {<<"ZERO", "ONE", "TWO", "THREE", "FOUR", "FIVE", "SIX", "SEVEN", "EIGHT",
                 "NINE">>[c - 47]}
    ELSE IF c = 32 THEN {"SPACE"}
    ELSE IF c = 46 THEN {"PERIOD"}
    ELSE IF c = 44 THEN {"COMMA"}
    ELSE IF c = 45 THEN {"MINUS"}
    ELSE IF c = 33 THEN {"SHIFT", "ONE"}
    ELSE IF c = 63 THEN {"SHIFT", "FORWARD_SLASH"}
    ELSE IF c = 95 THEN {"SHIFT", "MINUS"}
    ELSE IF c = 64 THEN {"SHIFT", "TWO"}
    ELSE IF c = 35 THEN {"SHIFT", "THREE"}
    ELSE IF c = 36 THEN {"SHIFT", "FOUR"}
    ELSE {}

RECURSIVE ClaimedKeystrokes(_)
ClaimedKeystrokes(text) ==
    IF text = <<>> THEN <<>>
    ELSE Keystroke(ClaimedKeys(Head(text))) \o ClaimedKeystrokes(Tail(text))

\* C4: for a line TEXT:<payload>, payload being every character between "TEXT:"
\* and the terminating newline, the keystrokes emitted once the line is typed
\* are those of the payload read left to right, one per supported character.
C4_TextTypedVerbatim ==
    LET d == Decode(RawBody)
    IN  (pc = "idle" /\ d.ok /\ StartsWith(d.text, s_TEXT))
            => hid.log = ClaimedKeystrokes(SubSeq(d.text, 6, Len(d.text)))

\* C5: whatever bytes follow "TEXT:", reading the line raises no error and the
\* relay keeps running; characters outside the supported set emit nothing.
C5_AnyBytesNoError ==
    StartsWith(raw, Encode(s_TEXT))
        => /\ pc # "crashed"
           /\ (pc = "idle" /\ \A i \in 6..Len(RawBody) : RawBody[i] \in {42, 58, 9} \cup 128..255)
                 => hid.log = <<>>

\* C6: a line that is none of the six tokens and starts with neither "CMD:" nor
\* "TEXT:" emits no HID call and raises no error, and the relay keeps running.
\* The line is compared without its surrounding whitespace, as the relay does.
C6_UnrecognizedSilent ==
    LET body == Strip(RawBody)
    IN  (/\ nread > 0
         /\ body \notin {Encode(t) : t \in Tokens}
         /\ ~StartsWith(body, Encode(s_CMD))
         /\ ~StartsWith(body, Encode(s_TEXT)))
            => pc # "crashed" /\ hid.log = <<>>

\* the devices at power-on, and every call type_text makes for a text
PowerOn == [keys |-> {}, buttons |-> {}, x |-> 0, y |-> 0, log |-> <<>>]

RECURSIVE TypeAll(_, _)
TypeAll(h, text) == IF text = <<>> THEN h ELSE TypeAll(TypeChar(h, Head(text)), Tail(text))

\* the calls a relay that has just been switched on makes for the line c
FreshLog(c) ==
    LET d == Dispatch(PowerOn, c)
    IN  IF d.typing THEN TypeAll(d.h, d.text).log ELSE d.h.log

\* C7: dispatch is stateless: once a line is dispatched, the HID calls made for
\* it (with the key reports they produce) are those a freshly started relay
\* makes for the same line, whatever lines came before; no key or button is
\* carried over, and the cursor is the sum of the relative moves of the
\* directional lines dispatched so far.
C7_StatelessDispatch ==
    pc = "idle"
        => /\ hid.log = FreshLog(cmd)
           /\ hid.keys = {} /\ hid.buttons = {}
           /\ hid.x = 10 * (nmoves[s_right] - nmoves[s_left])
           /\ hid.y = 10 * (nmoves[s_down] - nmoves[s_up])

\* the same line dispatched twice, after which the cursor has moved twice
C7_Witness ==
    /\ pc = "idle"
    /\ nread = 2
    /\ nmoves[s_up] = 2
    /\ hid.y = -20
    /\ hid.log = <<Call("move", {}, 0, -10, {})>>

\* C8: a POST /api/mouse carrying hid_action, or a POST /api/keyboard carrying
\* hid_key or hid_text, makes exactly one serial write: the bytes of
\* "<token>\n" for hid_action, of "CMD:<name>\n" for hid_key, of "TEXT:<text>\n"
\* for hid_text.
C8_OneWritePerRequest ==
    req # NoRequest =>
        LET d == req.data
            f == DOMAIN d
        IN  /\ (req.path = "/api/mouse" /\ "hid_action" \in f)
                  => /\ Len(writes) = 1
                     /\ writes[1].bytes = Encode(d["hid_action"] \o <<10>>)
            /\ (req.path = "/api/keyboard" /\ ("hid_key" \in f \/ "hid_text" \in f))
                  => /\ Len(writes) = 1
                     /\ writes[1].bytes \in
                            {Encode(s_CMD \o d[k] \o <<10>>) : k \in f \cap {"hid_key"}}
                                \cup {Encode(s_TEXT \o d[k] \o <<10>>) :
                                        k \in f \cap {"hid_text"}}

\* a hid_text request after a hid_action request, both written
C8_Witness ==
    /\ nreq = 2
    /\ sent = 2
    /\ req.path = "/api/keyboard"
    /\ DOMAIN req.data = {"hid_text"}
    /\ Len(writes) = 1
    /\ writes[1].ok

\* C9: the bytes the bridge writes for one request are read by the relay as
\* exactly one line: once the relay has drained the UART, it has read as many
\* lines as the bridge has made successful writes.
C9_OneLinePerRequest ==
    (uart = <<>> /\ pc = "idle") => nread = sent

\* C10: a request whose serial write succeeded is answered with a successful
\* HTTP response.
C10_AckOnSuccess ==
    (req # NoRequest /\ Len(writes) = 1 /\ writes[1].ok) => resp = 200

\* C11: when the serial write of a request fails, the request ends in an error
\* (status 500), the write was attempted once, and nothing of the line reaches
\* the wire; every request puts on the wire its own line or nothing, so a line
\* that failed is not sent by a later request either.
C11_WriteFailurePropagates ==
    [][nreq' # nreq =>
          /\ (writes' # <<>> /\ ~writes'[1].ok)
                => resp' = 500 /\ Len(writes') = 1 /\ uart' = uart /\ sent' = sent
          /\ uart' \in {uart} \cup {uart \o writes'[i].bytes :
                                      i \in {j \in 1..Len(writes') : writes'[j].ok}}]_vars

\* a write failed after an earlier request got its line through: the wire holds
\* the earlier line and nothing of the failed one
C11_Witness ==
    /\ nreq = 2
    /\ sent = 1
    /\ Len(writes) = 1
    /\ ~writes[1].ok
    /\ resp = 500
    /\ uart # <<>>
    /\ pc = "idle"
    /\ nread = 0

\* C12: one line at a time: from the moment the dispatch of a line starts until
\* it ends, the HID calls made are those of that line, in order (the calls made
\* so far followed by those of the characters still to type are the calls of
\* the whole line), no other line is read meanwhile, and the relay polls again
\* only when nothing of the text is left, whatever has arrived on the UART.
C12_OneLineAtATime ==
    /\ [](pc # "crashed"
            => /\ TypeAll(hid, rest).log = FreshLog(cmd)
               /\ (pc = "idle") = (rest = <<>>))
    /\ [][pc = "typing"
            => /\ nread' = nread /\ cmd' = cmd /\ raw' = raw
               /\ \/ hid' = hid
                  \/ hid' = TypeChar(hid, Head(rest)) /\ rest' = Tail(rest)]_vars

\* TEXT:Hi! is half typed ('H' is out, "i!" is left) and the next line, up,
\* already waits in the receive buffer
C12_Witness ==
    /\ pc = "typing"
    /\ cmd = s_TEXT \o <<72, 105, 33>>
    /\ rest = <<105, 33>>
    /\ Len(hid.log) = 2
    /\ uart = Line(s_up)

\* C13: lines that arrive while the relay is busy wait in the receive buffer:
\* the lines read so far followed by the lines waiting are the lines the host
\* has written, in the order written (none dropped, repeated or reordered), and
\* every line written is eventually read and dispatched.
C13_QueuedNotDropped ==
    /\ [](got \o Lines(uart) = wrote)
    /\ \A n \in 1..(2 * MaxRequests) : (Len(wrote) >= n) ~> (Len(got) >= n)

\* TEXT:Hi! is being typed while the two lines of a later request wait in the
\* receive buffer
C13_Witness ==
    /\ pc = "typing"
    /\ got = <<Line(s_TEXT \o <<72, 105, 33>>)>>
    /\ Len(wrote) = 3
    /\ uart = wrote[2] \o wrote[3]
    /\ Len(hid.log) = 2

\* C14: only complete lines are dispatched: an HID call is made only for bytes
\* that readline returned with the newline that terminates the line, so a prefix
\* of a line in transit is never dispatched as a command of its own.
C14_OnlyCompleteLines ==
    (nread > 0 /\ hid.log # <<>>) => raw[Len(raw)] = 10

\* C15: a line takes at most one branch: the calls made for a line are never a
\* mix of mouse and keyboard calls; a mouse call is made only when the whole
\* line (as the relay compares it) equals a token, and then it is the only call;
\* keyboard calls are made only for a line that starts with "CMD:" or "TEXT:".
\* TEXT:up types 'u' and 'p' and moves nothing; upx does nothing.
C15_OneBranchPerLine ==
    pc # "crashed" =>
        LET ops == {hid.log[i].op : i \in DOMAIN hid.log}
            mouse == ops \cap {"move", "click"} # {}
            keyboard == ops \cap {"press", "release_all"} # {}
        IN  /\ ~(mouse /\ keyboard)
            /\ mouse => cmd \in Tokens /\ Len(hid.log) = 1
            /\ keyboard => cmd \notin Tokens
                             /\ (StartsWith(cmd, s_CMD) \/ StartsWith(cmd, s_TEXT))
            /\ (pc = "idle" /\ raw = Line(s_TEXT \o s_up))
                  => hid.log = Keystroke({"U"}) \o Keystroke({"P"})
            /\ raw = Line(s_up \o <<120>>) => hid.log = <<>>

\* TEXT:up has been typed as the first line: two keystrokes, the cursor where
\* it was
C15_Witness ==
    /\ pc = "idle"
    /\ nread = 1
    /\ raw = Line(s_TEXT \o s_up)
    /\ Len(hid.log) = 4
    /\ hid.x = 0 /\ hid.y = 0

\* C16: the protocol is one-way: whatever lines are received and whatever
\* requests are handled, the relay has written no byte to the UART and the host
\* bridge has made no read from the serial port.
C16_OneWay ==
    uart_tx = <<>> /\ ser_reads = 0

\* the bridge has handled two requests and the relay has dispatched the line of
\* each: an ENTER keystroke last, nothing left in the buffer
C16_Witness ==
    /\ nreq = 2
    /\ sent = 2
    /\ nread = 2
    /\ pc = "idle"
    /\ uart = <<>>
    /\ hid.log = Keystroke({"ENTER"})

\* C17: access to the serial port is not serialized: while one request is in
\* the middle of its write (some of its bytes are out, some are not), the write
\* of another request can put its bytes on the wire.
C17_NoSerialization ==
    \A t \in DOMAIN th, u \in DOMAIN th :
        (/\ t # u
         /\ th[t].left \notin {<<>>, th[t].line}
         /\ th[u].left # <<>>)
            => ENABLED WriteSome(u)

\* both requests have written all their bytes and the first line the relay has
\* read ends with a newline but is the line of neither request: it holds bytes
\* of both
C17_Witness ==
    /\ DOMAIN th = Threads
    /\ \A t \in Threads : th[t].left = <<>>
    /\ nread = 1
    /\ raw[Len(raw)] = 10
    /\ raw \notin {th[t].line : t \in Threads}
    /\ pc = "idle"

\* C18: every dispatch terminates: a relay that has left Idle for a line is never
\* stopped there, it can always take the next step of the dispatch; the text
\* still to type is a proper rest of the payload, so the steps run out; and the
\* keystrokes made for a TEXT line never outnumber the characters typed so far.
C18_DispatchTerminates ==
    /\ pc # "idle" => ENABLED TypeStep
    /\ (pc # "crashed" /\ StartsWith(cmd, s_TEXT))
          => LET payload == Split1(cmd)[2]
                 typed == Len(payload) - Len(rest)
                 presses == {i \in DOMAIN hid.log : hid.log[i].op = "press"}
             IN  /\ rest = SubSeq(payload, typed + 1, Len(payload))
                 /\ Cardinality(presses) <= typed

\* C19: the two grammars do not overlap: the legacy relay makes no HID call for
\* a line that starts with "CMD:" or "TEXT:", and the current relay makes none
\* for the line shift or for a line type:<payload>.
C19_IncompatibleGrammars ==
    /\ (StartsWith(old.raw, Encode(s_CMD)) \/ StartsWith(old.raw, Encode(s_TEXT)))
          => old.hid.log = <<>>
    /\ (raw = Line(s_shift) \/ StartsWith(raw, Encode(s_type)))
          => hid.log = <<>>

\* both relays have been given CMD:ENTER: the current one has sent ENTER, the
\* legacy one has done nothing
C19_Witness ==
    /\ raw = Line(s_CMD \o s_ENTER)
    /\ old.raw = Line(s_CMD \o s_ENTER)
    /\ hid.log = Keystroke({"ENTER"})
    /\ old.hid.log = <<>>
    /\ old.pc = "idle"

\* C20: type:<p> on the legacy relay and TEXT:<p> on the current relay make the
\* same keyboard calls, for every payload p, with ':' or "type:" inside or not:
\* once both relays are done with their line the two call logs are equal.
C20_SamePayloadSameKeys ==
    (/\ nread = old.nread
     /\ pc # "typing"
     /\ StartsWith(raw, Encode(s_TEXT))
     /\ StartsWith(old.raw, Encode(s_type))
     /\ SubSeq(raw, 6, Len(raw)) = SubSeq(old.raw, 6, Len(old.raw)))
        => /\ hid.log = old.hid.log
           /\ hid.keys = old.hid.keys

\* TEXT:a:type:b and type:a:type:b have been typed by the two relays: both
\* have pressed A and B and nothing else
C20_Witness ==
    /\ pc = "idle" /\ old.pc = "idle"
    /\ nread = 1 /\ old.nread = 1
    /\ raw = Line(s_TEXT \o <<97, 58>> \o s_type \o <<98>>)
    /\ old.raw = Line(s_type \o <<97, 58>> \o s_type \o <<98>>)
    /\ hid.log = old.hid.log
    /\ Len(hid.log) = 12

\* the body of a line the relay has read, as the relay classifies it
LineText(line) == Strip(Decode(SubSeq(line, 1, Len(line) - 1)).text)

\* C21: a hid_text value with a newline in it is written as it is, so the
\* bytes of the one write are several lines: the first is TEXT:<part before
\* the first newline>, and the relay dispatches every later part as a command
\* line of its own, as if it had been sent alone.  For "a\nup" the relay types
\* 'a' and then moves the mouse up.
C21_NewlineSplitsText ==
    (/\ req.path = "/api/keyboard"
     /\ DOMAIN req.data = {"hid_text"}
     /\ Index(req.data["hid_text"], 10) > 0
     /\ Len(writes) = 1 /\ writes[1].ok)
        => LET v == req.data["hid_text"]
               ls == Lines(writes[1].bytes)
               newlines == {i \in DOMAIN v : v[i] = 10}
           IN  /\ Len(ls) = 1 + Cardinality(newlines)
               /\ ls[1] = Line(s_TEXT \o SubSeq(v, 1, Index(v, 10) - 1))
               /\ (uart = <<>> /\ pc = "idle")
                     => /\ nread >= Len(ls)
                        /\ raw = ls[Len(ls)]
                        /\ hid.log = FreshLog(LineText(ls[Len(ls)]))
               /\ (v = <<97, 10>> \o s_up /\ uart = <<>> /\ pc = "idle")
                     => hid.log = <<Call("move", {}, 0, -10, {})>>
               /\ (v = <<97, 10>> \o s_up /\ uart = Line(s_up) /\ pc = "idle")
                     => hid.log = Keystroke({"A"})

\* the one request {"hid_text": "a\nup"} has been read as two lines, and the
\* second has moved the cursor up
C21_Witness ==
    /\ nreq = 1
    /\ req.path = "/api/keyboard"
    /\ req.data = Field("hid_text", <<97, 10>> \o s_up)
    /\ nread = 2
    /\ raw = Line(s_up)
    /\ hid.y = -10
    /\ hid.log = <<Call("move", {}, 0, -10, {})>>

\* C22: POST /api/mouse is confined to the mouse: the HID calls that follow
\* from a request to /api/mouse (here the first request handled) are mouse
\* moves and clicks only, and a hid_action that is not one of the six tokens
\* (taken here among the values that are a single line) leads to no HID call
\* at all.
C22_MouseEndpointConfined ==
    (nreq = 1 /\ req.path = "/api/mouse")
        => /\ \A i \in DOMAIN hid.log : hid.log[i].op \in {"move", "click"}
           /\ (/\ "hid_action" \in DOMAIN req.data
               /\ req.data["hid_action"] \notin Tokens
               /\ Index(req.data["hid_action"], 10) = 0)
                 => hid.log = <<>>

\* C23: whenever the relay is Idle no key and no button is held, and in the
\* calls of a dispatch every press is followed at once by release_all and every
\* click leaves no button down.
C23_NothingHeldAtIdle ==
    /\ pc = "idle" => hid.keys = {} /\ hid.buttons = {}
    /\ \A i \in DOMAIN hid.log :
          /\ hid.log[i].op = "press"
                => i < Len(hid.log) /\ hid.log[i + 1].op = "release_all"
                                    /\ hid.log[i + 1].held = {}
          /\ hid.log[i].op = "click" => hid.log[i].held = {}

\* TEXT:Hi! has been typed after another line: SHIFT went down for 'H' and for
\* '!' and nothing is held now
C23_Witness ==
    /\ pc = "idle"
    /\ nread = 2
    /\ cmd = s_TEXT \o <<72, 105, 33>>
    /\ hid.log = Keystroke({"SHIFT", "H"}) \o Keystroke({"I"}) \o Keystroke({"SHIFT", "ONE"})
    /\ hid.keys = {}

\* the text handed to type_text for the line last classified
TextPayload == Split1(cmd)[2]

\* C24 as stated: the line is stripped before it is classified, so the payload
\* handed to type_text holds no newline and neither begins nor ends with
\* whitespace, no ENTER is typed from a TEXT line, and ' up ' is dispatched as up.
C24_PayloadNoOuterSpace ==
    /\ (pc # "crashed" /\ StartsWith(cmd, s_TEXT) /\ TextPayload # <<>>)
          => /\ Index(TextPayload, 10) = 0
             /\ ~IsSpace(TextPayload[1])
             /\ ~IsSpace(TextPayload[Len(TextPayload)])
             /\ \A i \in DOMAIN hid.log : hid.log[i].keys # {"ENTER"}
    /\ raw = Line(<<32>> \o s_up \o <<32>>)
          => cmd = s_up /\ hid.log = <<Call("move", {}, 0, -10, {})>>

\* C24 amended: the whole line is stripped, which takes whitespace from the end
\* of a TEXT payload but not from its start (the line starts with "TEXT:"): the
\* payload holds no newline and does not end with whitespace, no ENTER is typed
\* from a TEXT line, and ' up ' is dispatched as up.
C24_PayloadNoTrailingSpace ==
    /\ (pc # "crashed" /\ StartsWith(cmd, s_TEXT) /\ TextPayload # <<>>)
          => /\ Index(TextPayload, 10) = 0
             /\ ~IsSpace(TextPayload[Len(TextPayload)])
             /\ \A i \in DOMAIN hid.log : hid.log[i].keys # {"ENTER"}
    /\ raw = Line(<<32>> \o s_up \o <<32>>)
          => cmd = s_up /\ hid.log = <<Call("move", {}, 0, -10, {})>>

\* the line "TEXT: a  " has been typed: the payload handed to type_text was
\* " a", a space and an 'a'
C24_Witness ==
    /\ pc = "idle"
    /\ raw = Line(s_TEXT \o <<32, 97, 32, 32>>)
    /\ cmd = s_TEXT \o <<32, 97>>
    /\ hid.log = Keystroke({"SPACE"}) \o Keystroke({"A"})

\* C25: a POST /api/keyboard whose body carries both hid_key and hid_text makes
\* exactly one write, the bytes of "CMD:<hid_key>\n"; nothing else is put on the
\* wire for it, and when it is the only request the relay presses no key other
\* than those of the command, so the hid_text is never transmitted nor typed.
C25_KeyBeforeText ==
    /\ [][(/\ nreq' # nreq
            /\ req'.path = "/api/keyboard"
            /\ {"hid_key", "hid_text"} \subseteq DOMAIN req'.data)
              => LET line == Line(s_CMD \o req'.data["hid_key"])
                 IN  /\ Len(writes') = 1
                     /\ writes'[1].bytes = line
                     /\ uart' = IF writes'[1].ok THEN uart \o line ELSE uart]_vars
    /\ []((/\ nreq = 1
           /\ req.path = "/api/keyboard"
           /\ {"hid_key", "hid_text"} \subseteq DOMAIN req.data)
             => hid.log \in {<<>>, FreshLog(s_CMD \o req.data["hid_key"])})

\* the request {"hid_key": "ENTER", "hid_text": "a"} has been written and the
\* relay has pressed ENTER and nothing else
C25_Witness ==
    /\ nreq = 1
    /\ req.path = "/api/keyboard"
    /\ req.data = Field("hid_key", s_ENTER) @@ Field("hid_text", <<97>>)
    /\ writes = <<[bytes |-> Line(s_CMD \o s_ENTER), ok |-> TRUE]>>
    /\ uart = <<>>
    /\ nread = 1
    /\ hid.log = Keystroke({"ENTER"})

\* a request body without the field its endpoint reads
Fieldless(r) ==
    \/ r.path = "/api/mouse" /\ "hid_action" \notin DOMAIN r.data
    \/ r.path = "/api/keyboard" /\ DOMAIN r.data \cap {"hid_key", "hid_text"} = {}

\* C26: a POST /api/mouse without hid_action, and a POST /api/keyboard with
\* neither hid_key nor hid_text, make no serial write: handling it leaves the
\* wire and the relay as they were, and when it is the only request the relay
\* never reads a line and makes no HID call.
C26_NoFieldNoWrite ==
    /\ [][(nreq' # nreq /\ Fieldless(req'))
              => /\ writes' = <<>>
                 /\ uart' = uart
                 /\ sent' = sent
                 /\ hid' = hid]_vars
    /\ []((nreq = 1 /\ Fieldless(req))
             => uart = <<>> /\ nread = 0 /\ hid = PowerOn)

\* after a request whose line the relay has read, POST /api/keyboard with
\* {"hid_action": "up"} was handled and wrote nothing
C26_Witness ==
    /\ nreq = 2
    /\ sent = 1
    /\ nread = 1
    /\ req.path = "/api/keyboard"
    /\ req.data = Field("hid_action", s_up)
    /\ writes = <<>>
    /\ uart = <<>>

\* C27: the legacy /control writes only for an action among up, down, left,
\* right and click, and then the one line "<action>\n"; any other body writes
\* nothing and is answered with status "error".  Every line it has written is
\* recognized by the legacy relay, which makes exactly one mouse call for it:
\* /control being the only sender, every line the legacy relay has read was
\* dispatched to one move or one click, and once the buffer is drained it has
\* read as many lines as /control has written.
C27_LegacyControl ==
    /\ v2.nreq > 0 =>
          LET known == "action" \in DOMAIN v2.data /\ v2.data["action"] \in ControlActions
          IN  /\ known => /\ Len(v2.writes) = 1
                          /\ v2.writes[1].bytes = Line(v2.data["action"])
                          /\ v2.writes[1].ok => v2.status = "ok"
              /\ ~known => v2.writes = <<>> /\ v2.status = "error"
    /\ old.nread > 0 =>
          /\ old.pc = "idle"
          /\ old.cmd \in ControlActions
          /\ Len(old.hid.log) = 1
          /\ old.hid.log[1].op = IF old.cmd = s_click THEN "click" ELSE "move"
          /\ old.hid.keys = {}
    /\ old.uart = <<>> => old.nread = v2.sent

\* /control has written "click\n" after an earlier line, and the legacy relay
\* has clicked the left button for it
C27_Witness ==
    /\ v2.nreq = 2
    /\ v2.sent = 2
    /\ v2.data = Field("action", s_click)
    /\ v2.status = "ok"
    /\ old.nread = 2
    /\ old.uart = <<>>
    /\ old.hid.log = <<Call("click", {"LEFT_BUTTON"}, 0, 0, {})>>

\* a line the relay has no effect for: not one of the six tokens; if it starts
\* with "CMD:", what follows is not a supported name; if it starts with "TEXT:",
\* no character of what follows is a supported one
NoOpLine(c) ==
    /\ c \notin Tokens
    /\ StartsWith(c, s_CMD) => SubSeq(c, 5, Len(c)) \notin CmdNames
    /\ StartsWith(c, s_TEXT) => \A i \in 6..Len(c) : ClaimedKeys(c[i]) = {}

\* the HID state: the cursor, the keys held and the buttons held
HidState(h) == <<h.x, h.y, h.keys, h.buttons>>

\* C28: an unrecognized or no-op line (an unknown token, CMD: with an unknown
\* name, TEXT: with unsupported characters only) leaves the HID state as it was:
\* in every step of reading and dispatching such a line, and in the step where
\* reading a line ends the script, the cursor, the keys held and the buttons
\* held are the same after as before.
C28_NoOpKeepsState ==
    [][(pc' = "crashed" \/ NoOpLine(cmd')) => HidState(hid') = HidState(hid)]_vars

\* after `up`, the line CMD:enter has been read: nothing was called and the
\* cursor is where `up` left it
C28_Witness ==
    /\ nread = 2
    /\ pc = "idle"
    /\ cmd = s_CMD \o <<101, 110, 116, 101, 114>>
    /\ hid.log = <<>>
    /\ HidState(hid) = <<0, -10, {}, {}>>

\* C29: the position of an STSPIN stays in 0..steps_per_revolution-1 after
\* every sequence of step(n) calls, n positive, zero or negative; a forward
\* step from the highest position wraps to 0 and a reverse step from 0 wraps to
\* the highest position; step(n) followed by step(-n) brings the position back
\* to where it was.
C29_PositionWraps ==
    stepper.built =>
        LET last == stepper.steps_per_revolution - 1
            calls == stepper.calls
            trail == stepper.trail
        IN  /\ position(stepper) \in 0..last
            /\ trail[Len(trail)] = position(stepper)
            /\ \A i \in DOMAIN trail : trail[i] \in 0..last
            /\ \A i \in DOMAIN calls :
                  /\ (calls[i] = 1 /\ trail[i] = last) => trail[i + 1] = 0
                  /\ (calls[i] = -1 /\ trail[i] = 0) => trail[i + 1] = last
                  /\ calls[i] = 0 => trail[i + 1] = trail[i]
            /\ \A i \in 1..(Len(calls) - 1) :
                  calls[i + 1] = -calls[i] => trail[i + 2] = trail[i]

\* with four steps per revolution, step(-3) from 0 has gone over the wrap to
\* position 1, and step(3) has brought the position back to 0 over the wrap
C29_Witness ==
    /\ stepper.built
    /\ stepper.steps_per_revolution = 4
    /\ stepper.calls = <<-3, 3>>
    /\ stepper.trail = <<0, 1, 0>>
    /\ position(stepper) = 0
    /\ stepper.dir

\* the call a step of the player makes
Called(op) == midi' # midi /\ midi'.ops # <<>> /\ midi'.ops[Len(midi'.ops)] = op

====
